---- MODULE Spec2Model ----
(***************************************************************************)
(* Model of the RSS collector for large-shareholding reports:              *)
(* the text extractors, the reason categorizer, the price enricher, the    *)
(* per-entry upsert into the reports table and the multi-feed main loop.   *)
(*                                                                         *)
(* Texts are sequences of one-character tokens.  The glyphs of the source  *)
(* are written in ASCII: "UP" and "DOWN" are the two arrows, "DELTA" and   *)
(* "TRI" the two delta glyphs of the character class of rule 3.  A reason  *)
(* text is a sequence of word tokens; the six phrases of the categorizer   *)
(* are token sequences (the first two share their first word).             *)
(* An optional value (None in the source) is <<>>, a present value v is    *)
(* <<v>>.                                                                  *)
(***************************************************************************)
EXTENDS Integers, Sequences, FiniteSets, TLC

VARIABLES
    pc,                 \* position of the program
    text, result,       \* argument and result of extract_percentage_change
    reason_text, reason_code,   \* argument and result of categorize_reason
    feed_urls,          \* the list of feed URLs of the main block
    unique_feed_urls,   \* the list after the order-preserving deduplication
    url_index,          \* number of URLs the for loop has taken
    db,                 \* the reports table as committed in the database file
    txn,                \* the table as the open connection sees it
    now,                \* CURRENT_TIMESTAMP
    n_entries,          \* len(feed.entries)
    entry_index,        \* number of entries the loop has taken
    inserted_count, updated_count,
    data, existing,     \* locals, as of the last entry committed in this call
    provider,           \* what the market-data provider did for that entry
    processed,          \* history: URLs parse_and_store_rss was called with
    outcome,            \* history: how this call ended ("running" before)
    fault_before,       \* history: an earlier call ended in the except block
    fault_at,           \* history: the statement that raised in this call
    links_at_start,     \* history: the links stored when this call began
    rows_at_start,      \* history: the number of rows when this call began
    dbMark,             \* history: db when the current entry (or call) began
    seen                \* history: links of the entries committed in this call

pureVars == <<text, result, reason_text, reason_code>>
mainVars == <<feed_urls, unique_feed_urls, url_index, db, txn, now, n_entries,
              entry_index, inserted_count, updated_count, data, existing,
              provider, processed, outcome, fault_before, fault_at,
              links_at_start,
              rows_at_start, dbMark, seen>>
vars == <<pc, pureVars, mainVars>>

-----------------------------------------------------------------------------
(* Bounds of the model. *)
MaxTextLen == 5
MaxReasonLen == 3
MaxFeeds == 2
MaxEntries == 2

-----------------------------------------------------------------------------
(* Optional values. *)
None == <<>>
Some(v) == <<v>>
IsSome(o) == o # <<>>
Val(o) == o[1]

(* All sequences over S of length at most n. *)
SeqsUpTo(S, n) == UNION {[1..k -> S] : k \in 0..n}

-----------------------------------------------------------------------------
(* Regular-expression helpers for the class [\d\.] and literal tails.      *)
Digits == {"0", "1", "2", "3", "4", "5", "6", "7", "8", "9"}
DeltaGlyphs == {"DELTA", "TRI"}

DigitVal(c) ==
    CASE c = "0" -> 0 [] c = "1" -> 1 [] c = "2" -> 2 [] c = "3" -> 3
      [] c = "4" -> 4 [] c = "5" -> 5 [] c = "6" -> 6 [] c = "7" -> 7
      [] c = "8" -> 8 [] c = "9" -> 9

IsDigDot(c) == c \in Digits \cup {"."}

(* Greedy [\d\.]+ from position i: the index of the last character taken,  *)
(* i - 1 when text[i] is not in the class.                                 *)
RECURSIVE RunEnd(_, _)
RunEnd(t, i) ==
    IF i <= Len(t) /\ IsDigDot(t[i]) THEN RunEnd(t, i + 1) ELSE i - 1

(* The literal lit occurs in t at position i. *)
LitAt(t, i, lit) ==
    /\ i + Len(lit) - 1 <= Len(t)
    /\ \A k \in 1..Len(lit) : t[i + k - 1] = lit[k]

(* ([\d\.]+)<tail> matched with the group starting at i.  Backtracking the *)
(* greedy group cannot help: a shorter group is followed by a class        *)
(* character, never by the first letter of the tail.                       *)
GroupMatchAt(t, i, tail) ==
    /\ i <= Len(t)
    /\ IsDigDot(t[i])
    /\ LitAt(t, RunEnd(t, i) + 1, tail)

(* re.search: the group of the leftmost match, None without a match.       *)
SearchGroup(t, tail) ==
    LET starts == {i \in 1..Len(t) : GroupMatchAt(t, i, tail)}
    IN  IF starts = {} THEN None
        ELSE LET i == CHOOSE j \in starts : \A k \in starts : j <= k
             IN  Some(SubSeq(t, i, RunEnd(t, i)))

(* re.search of [DELTA TRI]([\d\.]+)<tail>.                                *)
SearchDeltaGroup(t, tail) ==
    LET starts == {i \in 1..Len(t) :
                      t[i] \in DeltaGlyphs /\ GroupMatchAt(t, i + 1, tail)}
    IN  IF starts = {} THEN None
        ELSE LET i == CHOOSE j \in starts : \A k \in starts : j <= k
             IN  Some(SubSeq(t, i + 1, RunEnd(t, i + 1)))

-----------------------------------------------------------------------------
(* float() on a string of digits and dots.                                 *)
RECURSIVE CountDots(_)
CountDots(s) ==
    IF s = <<>> THEN 0
    ELSE (IF s[1] = "." THEN 1 ELSE 0) + CountDots(Tail(s))

(* float accepts the string: at most one dot and at least one digit.       *)
FloatAccepts(s) == CountDots(s) <= 1 /\ Len(s) - CountDots(s) >= 1

(* The digits of s read as one integer, dots skipped.                      *)
RECURSIVE Mantissa(_, _)
Mantissa(s, acc) ==
    IF s = <<>> THEN acc
    ELSE IF s[1] = "." THEN Mantissa(Tail(s), acc)
    ELSE Mantissa(Tail(s), 10 * acc + DigitVal(s[1]))

(* Number of digits after the dot. *)
RECURSIVE FracDigits(_)
FracDigits(s) ==
    IF s = <<>> THEN 0
    ELSE IF s[1] = "." THEN Len(s) - 1
    ELSE FracDigits(Tail(s))

(* A decimal m / 10^e in lowest form: no trailing zero in the fraction.    *)
RECURSIVE Normalize(_, _)
Normalize(m, e) ==
    IF e > 0 /\ m % 10 = 0 THEN Normalize(m \div 10, e - 1)
    ELSE [mant |-> m, exp |-> e]

(* The value of float(s) for a string float accepts. *)
FloatValue(s) == Normalize(Mantissa(s, 0), FracDigits(s))

-----------------------------------------------------------------------------
(* extract_percentage_change: a returned (value, direction) pair, or the   *)
(* ValueError of float() leaving the function.                             *)
Returned(v, d) == [raised |-> FALSE, value |-> v, direction |-> d]
Raised == [raised |-> TRUE, value |-> None, direction |-> 0]

(* return float(match.group(1)), direction *)
FloatOrRaise(g, d) ==
    IF FloatAccepts(g) THEN Returned(Some(FloatValue(g)), d) ELSE Raised

extract_percentage_change(t) ==
    IF t = <<>> THEN Returned(None, 0)
    ELSE LET up_match == SearchGroup(t, <<"p", "t", "UP">>)
             down_match == SearchGroup(t, <<"p", "t", "DOWN">>)
             delta_match == SearchDeltaGroup(t, <<"p", "t">>)
             simple_match == SearchGroup(t, <<"p", "t">>)
         IN  IF IsSome(up_match) THEN FloatOrRaise(Val(up_match), 1)
             ELSE IF IsSome(down_match) THEN FloatOrRaise(Val(down_match), -1)
             ELSE IF IsSome(delta_match) THEN FloatOrRaise(Val(delta_match), -1)
             ELSE IF IsSome(simple_match) THEN FloatOrRaise(Val(simple_match), 0)
             ELSE Returned(None, 0)

-----------------------------------------------------------------------------
(* categorize_reason.                                                      *)
(* The mapping in its iteration order: phrase, code.                       *)
categories ==
    << <<(<<"HOLD1PCT", "INCREASE">>), 1>>,
       <<(<<"HOLD1PCT", "DECREASE">>), 2>>,
       <<(<<"NEW">>), 3>>,
       <<(<<"CHANGE">>), 4>>,
       <<(<<"CORRECTION">>), 5>>,
       <<(<<"BASEDATE">>), 6>> >>

(* key in reason_text: substring search. *)
Contains(t, key) == \E i \in 1..Len(t) : LitAt(t, i, key)

(* for key, value in categories.items(): the first key contained wins.     *)
RECURSIVE FirstCategory(_, _)
FirstCategory(t, k) ==
    IF k > Len(categories) THEN 0
    ELSE IF Contains(t, categories[k][1]) THEN categories[k][2]
    ELSE FirstCategory(t, k + 1)

(* Mutant: the mapping is searched from its last phrase. *)
RECURSIVE LastCategory(_, _)
LastCategory(t, k) ==
    IF k < 1 THEN 0
    ELSE IF Contains(t, categories[k][1]) THEN categories[k][2]
    ELSE LastCategory(t, k - 1)

categorize_reason_Reversed(t) ==
    IF t = <<>> THEN 0 ELSE LastCategory(t, Len(categories))

categorize_reason(t) ==
    IF t = <<>> THEN 0 ELSE FirstCategory(t, 1)

-----------------------------------------------------------------------------
(* Whitespace handling of a segment value:                                 *)
(* re.sub(r'\s+', ' ', value).strip()                                      *)
Whitespace == {" ", "NL"}

RECURSIVE CollapseWs(_)
CollapseWs(t) ==
    IF t = <<>> THEN <<>>
    ELSE IF t[1] \in Whitespace
         THEN IF Len(t) > 1 /\ t[2] \in Whitespace
              THEN CollapseWs(Tail(t))
              ELSE <<" ">> \o CollapseWs(Tail(t))
         ELSE <<t[1]>> \o CollapseWs(Tail(t))

RECURSIVE LStrip(_)
LStrip(t) ==
    IF t # <<>> /\ t[1] \in Whitespace THEN LStrip(Tail(t)) ELSE t

RECURSIVE RStrip(_)
RStrip(t) ==
    IF t # <<>> /\ t[Len(t)] \in Whitespace
    THEN RStrip(SubSeq(t, 1, Len(t) - 1)) ELSE t

Strip(t) == RStrip(LStrip(t))

cleaned_value(value) == Strip(CollapseWs(value))

-----------------------------------------------------------------------------
(* extract_ticker_number: re.search(r'\[(\d{4})\]', text)                  *)
extract_ticker_number(t) ==
    LET starts == {i \in 1..Len(t) :
                      /\ i + 5 <= Len(t)
                      /\ t[i] = "["
                      /\ \A k \in 1..4 : t[i + k] \in Digits
                      /\ t[i + 5] = "]"}
    IN  IF starts = {} THEN None
        ELSE LET i == CHOOSE j \in starts : \A k \in starts : j <= k
             IN  Some(SubSeq(t, i + 1, i + 4))

(* company_match = re.search(r'\]\s*(.*?)$', cleaned_value), then the      *)
(* group stripped: the text after the leftmost "]".  None: no match.       *)
company_match(t) ==
    LET starts == {i \in 1..Len(t) : t[i] = "]"}
    IN  IF starts = {} THEN None
        ELSE LET i == CHOOSE j \in starts : \A k \in starts : j <= k
             IN  Some(Strip(SubSeq(t, i + 1, Len(t))))

(* Greedy \d+ from position i: index of the last digit taken.              *)
RECURSIVE DigitRunEnd(_, _)
DigitRunEnd(t, i) ==
    IF i <= Len(t) /\ t[i] \in Digits THEN DigitRunEnd(t, i + 1) ELSE i - 1

(* (\d+\.\d+)% matched from position i: the index of the last digit of the *)
(* group, 0 without a match.                                               *)
PercentEndAt(t, i) ==
    IF i <= Len(t) /\ t[i] \in Digits
    THEN LET a == DigitRunEnd(t, i)
         IN  IF a + 2 <= Len(t) /\ t[a + 1] = "." /\ t[a + 2] \in Digits
             THEN LET b == DigitRunEnd(t, a + 2)
                  IN  IF b + 1 <= Len(t) /\ t[b + 1] = "%" THEN b ELSE 0
             ELSE 0
    ELSE 0

(* extract_percentage *)
extract_percentage(t) ==
    LET starts == {i \in 1..Len(t) : PercentEndAt(t, i) > 0}
    IN  IF starts = {} THEN None
        ELSE LET i == CHOOSE j \in starts : \A k \in starts : j <= k
             IN  Some(FloatValue(SubSeq(t, i, PercentEndAt(t, i))))

-----------------------------------------------------------------------------
(* parse_date.  A date text is a token sequence; numbers are tokens.       *)
YearTokens == {"2024", "2025"}
MonthNumTokens == {"01", "02"}
DayTokens == {"05", "06"}
MonthNameTokens == {"Jan", "Feb"}

TokenInt(tok) ==
    CASE tok = "2024" -> 2024 [] tok = "2025" -> 2025
      [] tok = "01" -> 1 [] tok = "02" -> 2
      [] tok = "05" -> 5 [] tok = "06" -> 6
      [] tok = "Jan" -> 1 [] tok = "Feb" -> 2

DateObj(y, m, d, tz) == [year |-> y, month |-> m, day |-> d, aware |-> tz]

(* '%a, %d %b %Y %H:%M:%S %z' *)
MatchesRfc822(s) ==
    /\ Len(s) = 12
    /\ s[1] \in {"Mon", "Tue"} /\ s[2] = "," /\ s[3] = " "
    /\ s[4] \in DayTokens /\ s[5] = " "
    /\ s[6] \in MonthNameTokens /\ s[7] = " "
    /\ s[8] \in YearTokens /\ s[9] = " "
    /\ s[10] = "10:00:00" /\ s[11] = " "
    /\ s[12] = "+0900"

(* '%Y<year glyph>%m<month glyph>%d<day glyph>' *)
MatchesKanjiDate(s) ==
    /\ Len(s) = 6
    /\ s[1] \in YearTokens /\ s[2] = "YEAR"
    /\ s[3] \in MonthNumTokens /\ s[4] = "MONTH"
    /\ s[5] \in DayTokens /\ s[6] = "DAY"

parse_date(s) ==
    IF MatchesRfc822(s)
    THEN Some(DateObj(TokenInt(s[8]), TokenInt(s[6]), TokenInt(s[4]), TRUE))
    ELSE IF MatchesKanjiDate(s)
    THEN Some(DateObj(TokenInt(s[1]), TokenInt(s[3]), TokenInt(s[5]), FALSE))
    ELSE None

(* get_date_components: (year, month, day), each optional.                 *)
get_date_components(date_obj) ==
    IF IsSome(date_obj)
    THEN <<Some(Val(date_obj).year), Some(Val(date_obj).month),
           Some(Val(date_obj).day)>>
    ELSE <<None, None, None>>

-----------------------------------------------------------------------------
(* One entry of a feed: from entry.title to the data dict after the loop   *)
(* over the labelled segments of the description.                          *)
(* A description is the list content_pairs of (label, value) segments.     *)
(* Labels: "issue", "ratio", "obligation_date", "reason", "purpose" stand  *)
(* for the five labels the loop recognizes; any other label is ignored.    *)

(* The data dict as first built from title, link and published. *)
InitialData(title, link, published) ==
    LET published_date == parse_date(published)
        pub == get_date_components(published_date)
    IN  [title |-> title,
         link |-> link,
         published |-> published,
         published_date |-> published_date,
         ticker |-> None,
         company |-> None,
         percentage |-> None,
         percentage_change |-> None,
         percentage_change_value |-> None,
         percentage_change_direction |-> 0,
         change_flag |-> None,
         report_date |-> None,
         report_date_timestamp |-> None,
         reason |-> None,
         reason_type |-> 0,
         purpose |-> None,
         report_date_close |-> None,
         current_price |-> None,
         year |-> pub[1],
         month |-> pub[2],
         day |-> pub[3]]

(* The body of the loop over content_pairs for one pair that does not      *)
(* raise.                                                                  *)
ApplyPair(rec, key, value) ==
    LET cv == cleaned_value(value)
    IN  IF key = "issue"
        THEN LET cm == company_match(cv)
             IN  [rec EXCEPT !.ticker = extract_ticker_number(cv),
                              !.company = IF IsSome(cm) THEN cm ELSE @]
        ELSE IF key = "ratio"
        THEN LET change == extract_percentage_change(cv)
             IN  [rec EXCEPT !.percentage = extract_percentage(cv),
                              !.percentage_change_value = change.value,
                              !.percentage_change_direction = change.direction]
        ELSE IF key = "obligation_date"
        THEN LET report_date_obj == parse_date(cv)
                 comp == get_date_components(report_date_obj)
                 backfill == IsSome(report_date_obj) /\ ~IsSome(rec.year)
             IN  [rec EXCEPT !.report_date = Some(cv),
                              !.report_date_timestamp = report_date_obj,
                              !.year = IF backfill THEN comp[1] ELSE @,
                              !.month = IF backfill THEN comp[2] ELSE @,
                              !.day = IF backfill THEN comp[3] ELSE @]
        ELSE IF key = "reason"
        THEN [rec EXCEPT !.reason = Some(cv),
                          !.reason_type = categorize_reason(cv)]
        ELSE IF key = "purpose"
        THEN [rec EXCEPT !.purpose = Some(cv)]
        ELSE rec

(* The pair makes the loop body raise: the ValueError of                   *)
(* extract_percentage_change is not caught inside the loop.                *)
PairRaises(key, value) ==
    key = "ratio" /\ extract_percentage_change(cleaned_value(value)).raised

(* for key, value in content_pairs *)
RECURSIVE ExtractPairs(_, _)
ExtractPairs(rec, pairs) ==
    IF pairs = <<>> THEN [raised |-> FALSE, data |-> rec]
    ELSE IF PairRaises(pairs[1][1], pairs[1][2])
    THEN [raised |-> TRUE, data |-> rec]
    ELSE ExtractPairs(ApplyPair(rec, pairs[1][1], pairs[1][2]), Tail(pairs))

(* The entry up to the price lookup. *)
ExtractEntry(e) ==
    ExtractPairs(InitialData(e.title, e.link, e.published), e.description)

(* if data['ticker'] and data['report_date_timestamp'] *)
WantsPrices(rec) == IsSome(rec.ticker) /\ IsSome(rec.report_date_timestamp)

-----------------------------------------------------------------------------
(* Mutant: when the quote lookup raises after the history was read, the   *)
(* close already taken is returned.                                        *)
FetchPricesResults_ErrorKeepsClose ==
    {[provider |-> "error", report_date_close |-> Some(100), current_price |-> None],
     [provider |-> "empty", report_date_close |-> None, current_price |-> None],
     [provider |-> "empty", report_date_close |-> None, current_price |-> Some(200)],
     [provider |-> "bars", report_date_close |-> Some(100), current_price |-> Some(200)]}

(* fetch_prices: what the call can return, with what the provider did.     *)
(* "error": something raised inside the try block, the except branch       *)
(* returns (None, None); "empty": the history is empty, the close is None  *)
(* and the latest quote of info.get, which may be missing, is still        *)
(* returned; "bars": the history has a first bar, whose close is returned  *)
(* with the latest quote.                                                  *)
FetchPricesResults ==
    {[provider |-> "error", report_date_close |-> None, current_price |-> None]}
    \cup {[provider |-> "empty", report_date_close |-> None, current_price |-> q] :
             q \in {None, Some(200)}}
    \cup {[provider |-> "bars", report_date_close |-> Some(100), current_price |-> q] :
             q \in {Some(200)}}

(* The price lookup is skipped. *)
NoPriceLookup ==
    [provider |-> "skipped", report_date_close |-> None, current_price |-> None]

PriceResultsFor(rec) ==
    IF WantsPrices(rec) THEN FetchPricesResults ELSE {NoPriceLookup}

WithPrices(rec, pr) ==
    [rec EXCEPT !.report_date_close = pr.report_date_close,
                 !.current_price = pr.current_price]

-----------------------------------------------------------------------------
(* The reports table: a sequence of rows in insertion order.               *)
(* Mutant: the lookup compares the wrong column. *)
RowsWithLink_WrongColumn(tbl, link) == {i \in 1..Len(tbl) : tbl[i].title = link}

RowsWithLink(tbl, link) == {i \in 1..Len(tbl) : tbl[i].link = link}

(* SELECT id FROM reports WHERE link = ?; existing = cursor.fetchone()     *)
Existing(tbl, link) == RowsWithLink(tbl, link) # {}

(* link TEXT UNIQUE: an INSERT of a stored link raises IntegrityError.     *)
UniqueViolation(tbl, link) == RowsWithLink(tbl, link) # {}

(* Mutant: the UPDATE sets a column only when the new value is present.    *)
UpdateRows_KeepsOldWhenAbsent(tbl, rec, at) ==
    [i \in 1..Len(tbl) |->
        IF tbl[i].link = rec.link
        THEN [tbl[i] EXCEPT
                 !.title = rec.title,
                 !.published = rec.published,
                 !.published_date = rec.published_date,
                 !.ticker = IF IsSome(rec.ticker) THEN rec.ticker ELSE @,
                 !.company = IF IsSome(rec.company) THEN rec.company ELSE @,
                 !.percentage = IF IsSome(rec.percentage) THEN rec.percentage ELSE @,
                 !.percentage_change_value = rec.percentage_change_value,
                 !.percentage_change_direction = rec.percentage_change_direction,
                 !.report_date = IF IsSome(rec.report_date) THEN rec.report_date ELSE @,
                 !.report_date_timestamp = rec.report_date_timestamp,
                 !.reason = IF IsSome(rec.reason) THEN rec.reason ELSE @,
                 !.reason_type = rec.reason_type,
                 !.purpose = IF IsSome(rec.purpose) THEN rec.purpose ELSE @,
                 !.report_date_close = rec.report_date_close,
                 !.current_price = rec.current_price,
                 !.year = rec.year,
                 !.month = rec.month,
                 !.day = rec.day,
                 !.updated_at = at]
        ELSE tbl[i]]

(* UPDATE reports SET ... WHERE link = ? *)
UpdateRows(tbl, rec, at) ==
    [i \in 1..Len(tbl) |->
        IF i \in RowsWithLink(tbl, rec.link)
        THEN [tbl[i] EXCEPT
                 !.title = rec.title,
                 !.published = rec.published,
                 !.published_date = rec.published_date,
                 !.ticker = rec.ticker,
                 !.company = rec.company,
                 !.percentage = rec.percentage,
                 !.percentage_change_value = rec.percentage_change_value,
                 !.percentage_change_direction = rec.percentage_change_direction,
                 !.report_date = rec.report_date,
                 !.report_date_timestamp = rec.report_date_timestamp,
                 !.reason = rec.reason,
                 !.reason_type = rec.reason_type,
                 !.purpose = rec.purpose,
                 !.report_date_close = rec.report_date_close,
                 !.current_price = rec.current_price,
                 !.year = rec.year,
                 !.month = rec.month,
                 !.day = rec.day,
                 !.updated_at = at]
        ELSE tbl[i]]

(* INSERT INTO reports (...) VALUES (...): the columns not listed take     *)
(* their defaults.                                                         *)
InsertRow(tbl, rec, at) ==
    Append(tbl,
        [id |-> Len(tbl) + 1,
         title |-> rec.title,
         link |-> rec.link,
         published |-> rec.published,
         published_date |-> rec.published_date,
         ticker |-> rec.ticker,
         company |-> rec.company,
         percentage |-> rec.percentage,
         percentage_change |-> None,
         percentage_change_value |-> rec.percentage_change_value,
         percentage_change_direction |-> rec.percentage_change_direction,
         change_flag |-> None,
         report_date |-> rec.report_date,
         report_date_timestamp |-> rec.report_date_timestamp,
         reason |-> rec.reason,
         reason_type |-> rec.reason_type,
         purpose |-> rec.purpose,
         report_date_close |-> rec.report_date_close,
         current_price |-> rec.current_price,
         created_at |-> at,
         updated_at |-> at,
         year |-> rec.year,
         month |-> rec.month,
         day |-> rec.day])

(* if existing: UPDATE ... else: INSERT ... *)
Upsert(tbl, rec, found, at) ==
    IF found THEN UpdateRows(tbl, rec, at) ELSE InsertRow(tbl, rec, at)

(* Mutant: the insert counter counts every entry. *)
IncInserted_Always(count, found) == count + 1

(* inserted_count += 1 in the INSERT branch. *)
IncInserted(count, found) == IF found THEN count ELSE count + 1

(* updated_count += 1 in the UPDATE branch. *)
IncUpdated(count, found) == IF found THEN count + 1 ELSE count

(* The statement of the branch taken raises inside the storage engine.     *)
UpsertRaises(tbl, rec, found) ==
    ~found /\ UniqueViolation(tbl, rec.link)

-----------------------------------------------------------------------------
(* Inputs of the feed runs.                                                *)
URLs == {"u1", "u2"}
Titles == {"t1", "t2"}
Links == {"l1", "l2"}

PublishedParsable ==
    <<"Mon", ",", " ", "05", " ", "Feb", " ", "2024", " ", "10:00:00", " ", "+0900">>
PublishedUnparsable == <<"yesterday">>
PublishedTexts == {PublishedParsable, PublishedUnparsable}

IssueSeg == <<"issue", <<" ", "[", "1", "2", "3", "4", "]", " ", "C", "o", "NL">> >>
RatioSeg ==
    <<"ratio", <<"5", ".", "1", "0", "%", " ", "NL", "1", ".", "0", "2", "p", "t", "UP">> >>
RatioDotsSeg == <<"ratio", <<"5", ".", "1", "0", "%", " ", ".", ".", ".", "p", "t">> >>
DateASeg == <<"obligation_date", <<"2024", "YEAR", "01", "MONTH", "05", "DAY", "NL">> >>
DateBSeg == <<"obligation_date", <<"2025", "YEAR", "02", "MONTH", "06", "DAY">> >>
ReasonSeg == <<"reason", <<"HOLD1PCT", "INCREASE">> >>
PurposeSeg == <<"purpose", <<"pure", " ", " ", "investment">> >>
OtherSeg == <<"remarks", <<"none">> >>

Descriptions ==
    { <<>>,
      <<IssueSeg, RatioSeg, DateASeg, ReasonSeg, PurposeSeg>>,
      <<DateASeg, OtherSeg, DateBSeg>>,
      <<IssueSeg, RatioDotsSeg, DateASeg>> }

(* Every text for the first link under the first title; the second title  *)
(* and the second link, which is there for tables of several rows, come    *)
(* with one entry each.                                                    *)
Entries ==
    {e \in [title : Titles, link : Links, published : PublishedTexts,
            description : Descriptions] :
        \/ e.link = "l1" /\ e.title = "t1"
        \/ /\ e.published = PublishedParsable
           /\ e.description = <<>>
           /\ (e.link = "l1" \/ e.title = "t1")}

(* The feed lists: not empty; the URLs being interchangeable, the first    *)
(* one is called u1.                                                       *)
FeedLists == {l \in SeqsUpTo(URLs, MaxFeeds) : l # <<>> /\ l[1] = "u1"}

(* What the entries of the input domain extract to. *)
ExtractedEntries == {ExtractEntry(e) : e \in Entries}

(* The data of the entries that reach the write, with every price lookup   *)
(* result.                                                                 *)
PricedEntries ==
    UNION {{[data |-> WithPrices(x.data, pr), provider |-> pr.provider] :
               pr \in PriceResultsFor(x.data)} :
           x \in {y \in ExtractedEntries : ~y.raised}}

-----------------------------------------------------------------------------
(* The main block.                                                         *)
(* unique_feed_urls: the loop over feed_urls with the set seen.            *)
RECURSIVE DedupFrom(_, _, _)
DedupFrom(urls, unique, seenUrls) ==
    IF urls = <<>> THEN unique
    ELSE IF urls[1] \notin seenUrls
    THEN DedupFrom(Tail(urls), Append(unique, urls[1]), seenUrls \cup {urls[1]})
    ELSE DedupFrom(Tail(urls), unique, seenUrls)

Dedup(urls) == DedupFrom(urls, <<>>, {})

NoData == InitialData("", "", <<>>)

TableLinks(tbl) == {tbl[i].link : i \in 1..Len(tbl)}

Init ==
    /\ pc = "main_dedup"
    /\ feed_urls \in FeedLists
    /\ unique_feed_urls = <<>>
    /\ url_index = 0
    /\ db = <<>>
    /\ txn = <<>>
    /\ now = 0
    /\ n_entries = 0
    /\ entry_index = 0
    /\ inserted_count = 0
    /\ updated_count = 0
    /\ data = NoData
    /\ existing = FALSE
    /\ provider = "skipped"
    /\ processed = <<>>
    /\ outcome = "none"
    /\ fault_before = FALSE
    /\ fault_at = "none"
    /\ links_at_start = {}
    /\ rows_at_start = 0
    /\ dbMark = <<>>
    /\ seen = <<>>
    /\ text = <<>>
    /\ result = Returned(None, 0)
    /\ reason_text = <<>>
    /\ reason_code = 0

runLocals == <<n_entries, entry_index, inserted_count, updated_count, data,
               existing, provider, fault_at, seen>>
runStart == <<links_at_start, rows_at_start>>

MainDedup ==
    /\ pc = "main_dedup"
    /\ unique_feed_urls' = Dedup(feed_urls)
    /\ pc' = "main_loop"
    /\ UNCHANGED <<pureVars, feed_urls, url_index, db, txn, now, runLocals,
                   processed, outcome, fault_before, runStart, dbMark>>

(* for url in unique_feed_urls: parse_and_store_rss(url, db_path), up to   *)
(* the connection and cursor being open.  Each call begins at a later      *)
(* reading of the clock.                                                   *)
MainNextFeed ==
    /\ pc = "main_loop"
    /\ url_index < Len(unique_feed_urls)
    /\ url_index' = url_index + 1
    /\ processed' = Append(processed, unique_feed_urls[url_index + 1])
    /\ txn' = db
    /\ links_at_start' = TableLinks(db)
    /\ rows_at_start' = Len(db)
    /\ dbMark' = db
    /\ n_entries' = 0
    /\ entry_index' = 0
    /\ inserted_count' = 0
    /\ updated_count' = 0
    /\ data' = NoData
    /\ existing' = FALSE
    /\ provider' = "skipped"
    /\ fault_at' = "none"
    /\ seen' = <<>>
    /\ now' = now + 1
    /\ outcome' = "running"
    /\ fault_before' = (fault_before \/ outcome = "fault")
    /\ pc' = "fetch"
    /\ UNCHANGED <<pureVars, feed_urls, unique_feed_urls, db>>

MainDone ==
    /\ pc = "main_loop"
    /\ url_index = Len(unique_feed_urls)
    /\ pc' = "main_done"
    /\ UNCHANGED <<pureVars, mainVars>>

-----------------------------------------------------------------------------
(* parse_and_store_rss.                                                    *)

(* urlopen, read or decode raises. *)
FetchRaises ==
    /\ pc = "fetch"
    /\ fault_at' = "fetch"
    /\ pc' = "except"
    /\ UNCHANGED <<pureVars, feed_urls, unique_feed_urls, url_index, db, txn, now,
                   n_entries, entry_index, inserted_count, updated_count, data,
                   existing, provider, processed, outcome, fault_before, runStart, dbMark, seen>>

(* if feed.bozo: return None, then the finally block closes the connection *)
FeedMalformed ==
    /\ pc = "fetch"
    /\ outcome' = "malformed"
    /\ pc' = "main_loop"
    /\ UNCHANGED <<pureVars, feed_urls, unique_feed_urls, url_index, db, txn, now,
                   runLocals, processed, fault_before, runStart, dbMark>>

(* The feed parses: the counters are reset and the loop begins. *)
FeedParsed ==
    /\ pc = "fetch"
    /\ n_entries' \in 0..MaxEntries
    /\ entry_index' = 0
    /\ inserted_count' = 0
    /\ updated_count' = 0
    /\ pc' = "entries"
    /\ UNCHANGED <<pureVars, feed_urls, unique_feed_urls, url_index, db, txn, now,
                   data, existing, provider, processed, outcome, fault_before,
                   fault_at, runStart, dbMark, seen>>

entryFrame == <<pureVars, feed_urls, unique_feed_urls, url_index, n_entries,
                now, processed, outcome, fault_before, runStart>>

(* An entry whose segment loop raises: nothing is executed. *)
EntryExtractRaises ==
    /\ pc = "entries"
    /\ entry_index < n_entries
    /\ \E x \in ExtractedEntries : x.raised
    /\ entry_index' = entry_index + 1
    /\ dbMark' = db
    /\ fault_at' = "extract"
    /\ pc' = "except"
    /\ UNCHANGED <<entryFrame, db, txn, inserted_count, updated_count, data,
                   existing, provider, seen>>

(* The UPDATE or INSERT statement raises: nothing is written. *)
EntryExecuteRaises ==
    /\ pc = "entries"
    /\ entry_index < n_entries
    /\ \E p \in PricedEntries : TRUE
    /\ entry_index' = entry_index + 1
    /\ dbMark' = db
    /\ fault_at' = "execute"
    /\ pc' = "except"
    /\ UNCHANGED <<entryFrame, db, txn, inserted_count, updated_count, data,
                   existing, provider, seen>>

(* The statement is executed and conn.commit() raises. *)
EntryCommitRaises ==
    /\ pc = "entries"
    /\ entry_index < n_entries
    /\ \E p \in PricedEntries :
          LET ex == Existing(txn, p.data.link)
          IN  /\ ~UpsertRaises(txn, p.data, ex)
              /\ txn' = Upsert(txn, p.data, ex, now)
              /\ inserted_count' = IncInserted(inserted_count, ex)
              /\ updated_count' = IncUpdated(updated_count, ex)
    /\ entry_index' = entry_index + 1
    /\ dbMark' = db
    /\ fault_at' = "commit"
    /\ pc' = "except"
    /\ UNCHANGED <<entryFrame, db, data, existing, provider, seen>>

(* The entry is written and committed; then one of the print calls of the  *)
(* loop body raises.                                                       *)
EntryPrintRaises ==
    /\ pc = "entries"
    /\ entry_index < n_entries
    /\ \E p \in PricedEntries :
          LET ex == Existing(txn, p.data.link)
          IN  /\ ~UpsertRaises(txn, p.data, ex)
              /\ existing' = ex
              /\ data' = p.data
              /\ provider' = p.provider
              /\ txn' = Upsert(txn, p.data, ex, now)
              /\ db' = txn'
              /\ inserted_count' = IncInserted(inserted_count, ex)
              /\ updated_count' = IncUpdated(updated_count, ex)
              /\ seen' = Append(seen, p.data.link)
    /\ entry_index' = entry_index + 1
    /\ dbMark' = db
    /\ fault_at' = "print"
    /\ pc' = "except"
    /\ UNCHANGED <<entryFrame>>

(* The entry is written, committed and printed. *)
EntryStored ==
    /\ pc = "entries"
    /\ entry_index < n_entries
    /\ \E p \in PricedEntries :
          LET ex == Existing(txn, p.data.link)
          IN  /\ ~UpsertRaises(txn, p.data, ex)
              /\ existing' = ex
              /\ data' = p.data
              /\ provider' = p.provider
              /\ txn' = Upsert(txn, p.data, ex, now)
              /\ db' = txn'
              /\ inserted_count' = IncInserted(inserted_count, ex)
              /\ updated_count' = IncUpdated(updated_count, ex)
              /\ seen' = Append(seen, p.data.link)
    /\ entry_index' = entry_index + 1
    /\ dbMark' = db
    /\ UNCHANGED <<entryFrame, fault_at, pc>>

(* The loop is over: the summary line is printed and the finally block     *)
(* closes the connection.                                                  *)
Summary ==
    /\ pc = "entries"
    /\ entry_index = n_entries
    /\ outcome' = "completed"
    /\ pc' = "main_loop"
    /\ UNCHANGED <<pureVars, feed_urls, unique_feed_urls, url_index, db, txn, now,
                   runLocals, processed, fault_before, runStart, dbMark>>

(* Mutant: the handler commits what the connection holds. *)
Rollback_Commits(committed, uncommitted) == uncommitted

(* conn.rollback() and conn.close(): the table left in the file is the    *)
(* committed one; what the connection had not committed is dropped.        *)
Rollback(committed, uncommitted) == committed

(* Mutant: the handler rolls back and raises again: the exception leaves   *)
(* parse_and_store_rss and ends the program.                               *)
Except_Reraises ==
    /\ pc = "except"
    /\ db' = db
    /\ txn' = db
    /\ outcome' = "fault"
    /\ pc' = "crashed"
    /\ UNCHANGED <<pureVars, feed_urls, unique_feed_urls, url_index, now,
                   runLocals, processed, fault_before, runStart, dbMark>>

(* except Exception: the error is printed, the transaction rolled back,    *)
(* and the finally block closes the connection; the call returns.          *)
Except ==
    /\ pc = "except"
    /\ db' = Rollback(db, txn)
    /\ txn' = db'
    /\ outcome' = "fault"
    /\ pc' = "main_loop"
    /\ UNCHANGED <<pureVars, feed_urls, unique_feed_urls, url_index, now,
                   runLocals, processed, fault_before, runStart, dbMark>>

Next ==
    \/ MainDedup
    \/ MainNextFeed
    \/ MainDone
    \/ FetchRaises
    \/ FeedMalformed
    \/ FeedParsed
    \/ EntryExtractRaises
    \/ EntryExecuteRaises
    \/ EntryCommitRaises
    \/ EntryPrintRaises
    \/ EntryStored
    \/ Summary
    \/ Except

Spec == Init /\ [][Next]_vars

(* The program is sequential and every statement returns or raises: a      *)
(* step that can be taken is taken.                                        *)
FairSpec == Spec /\ WF_vars(Next)

-----------------------------------------------------------------------------
(* Specification of the two pure functions on bounded inputs.              *)
PctAlphabet == {"1", ".", "p", "t", "UP", "DOWN", "DELTA", "TRI"}
ReasonAlphabet ==
    {"HOLD1PCT", "INCREASE", "DECREASE", "NEW", "CHANGE", "CORRECTION",
     "BASEDATE", "other"}

(* The main program does not run. *)
MainIdle ==
    /\ feed_urls = <<>>
    /\ unique_feed_urls = <<>>
    /\ url_index = 0
    /\ db = <<>>
    /\ txn = <<>>
    /\ now = 0
    /\ n_entries = 0
    /\ entry_index = 0
    /\ inserted_count = 0
    /\ updated_count = 0
    /\ data = NoData
    /\ existing = FALSE
    /\ provider = "skipped"
    /\ processed = <<>>
    /\ outcome = "none"
    /\ fault_before = FALSE
    /\ fault_at = "none"
    /\ links_at_start = {}
    /\ rows_at_start = 0
    /\ dbMark = <<>>
    /\ seen = <<>>

InitPct ==
    /\ pc = "call"
    /\ text \in SeqsUpTo(PctAlphabet, MaxTextLen)
    /\ result = Returned(None, 0)
    /\ reason_text = <<>>
    /\ reason_code = 0
    /\ MainIdle

CallExtractPercentageChange ==
    /\ pc = "call"
    /\ result' = extract_percentage_change(text)
    /\ pc' = "returned"
    /\ UNCHANGED <<text, reason_text, reason_code, mainVars>>

SpecPct == InitPct /\ [][CallExtractPercentageChange]_vars

InitReason ==
    /\ pc = "call"
    /\ reason_text \in SeqsUpTo(ReasonAlphabet, MaxReasonLen)
    /\ reason_code = 0
    /\ text = <<>>
    /\ result = Returned(None, 0)
    /\ MainIdle

CallCategorizeReason ==
    /\ pc = "call"
    /\ reason_code' = categorize_reason(reason_text)
    /\ pc' = "returned"
    /\ UNCHANGED <<reason_text, text, result, mainVars>>

SpecReason == InitReason /\ [][CallCategorizeReason]_vars

-----------------------------------------------------------------------------
(* Properties.                                                             *)

(* The last event of the current call is the commit of an entry: data,     *)
(* existing and provider are those of that entry and dbMark is the table   *)
(* before it.                                                              *)
JustCommitted == entry_index > 0 /\ fault_at \in {"none", "print"}

StoredRows(tbl, link) == {i \in 1..Len(tbl) : tbl[i].link = link}
StoredRow(tbl, link) == tbl[CHOOSE i \in StoredRows(tbl, link) : TRUE]

OneRowPerLink(tbl) ==
    \A i, j \in 1..Len(tbl) : tbl[i].link = tbl[j].link => i = j

(* C1: in every reachable state the reports table, as committed and as the *)
(* open connection sees it, holds at most one row per link.                *)
C1_OneRowPerLink == OneRowPerLink(db) /\ OneRowPerLink(txn)

(* C1 witness: in a program run in which an earlier feed run aborted, a    *)
(* feed has carried the same link twice and the second was stored.         *)
C1_Witness ==
    /\ JustCommitted
    /\ existing
    /\ fault_before
    /\ Len(seen) = 2
    /\ seen[1] = seen[2]
    /\ Len(db) = 2

(* The columns the UPDATE statement sets from the data dict. *)
RowMatchesData(row, d) ==
    /\ row.title = d.title
    /\ row.link = d.link
    /\ row.published = d.published
    /\ row.published_date = d.published_date
    /\ row.ticker = d.ticker
    /\ row.company = d.company
    /\ row.percentage = d.percentage
    /\ row.percentage_change_value = d.percentage_change_value
    /\ row.percentage_change_direction = d.percentage_change_direction
    /\ row.report_date = d.report_date
    /\ row.report_date_timestamp = d.report_date_timestamp
    /\ row.reason = d.reason
    /\ row.reason_type = d.reason_type
    /\ row.purpose = d.purpose
    /\ row.report_date_close = d.report_date_close
    /\ row.current_price = d.current_price
    /\ row.year = d.year
    /\ row.month = d.month
    /\ row.day = d.day

(* C2: after an entry whose link already had a row, the row count is       *)
(* unchanged, the insert counter still counts the rows added and the       *)
(* update counter the other entries, every column of the row equals the    *)
(* value of the new entry's data, updated_at is the time of the update,    *)
(* created_at and id keep their values, and the other rows are untouched.  *)
C2_UpdateOverwrites ==
    (JustCommitted /\ existing) =>
        /\ Len(db) = Len(dbMark)
        /\ inserted_count = Len(db) - rows_at_start
        /\ updated_count = entry_index - inserted_count
        /\ updated_count >= 1
        /\ \A i \in 1..Len(db) :
              IF dbMark[i].link = data.link
              THEN /\ RowMatchesData(db[i], data)
                   /\ db[i].updated_at = now
                   /\ db[i].created_at = dbMark[i].created_at
                   /\ db[i].id = dbMark[i].id
              ELSE db[i] = dbMark[i]
        /\ \E i \in 1..Len(dbMark) : dbMark[i].link = data.link

(* C2 witness: a row that had a purpose, a ticker and prices is updated,   *)
(* at a later time than its creation, by an entry with an empty            *)
(* description and another title.                                          *)
C2_Witness ==
    /\ JustCommitted
    /\ existing
    /\ IsSome(StoredRow(dbMark, data.link).purpose)
    /\ IsSome(StoredRow(dbMark, data.link).report_date_close)
    /\ StoredRow(dbMark, data.link).title # data.title
    /\ ~IsSome(data.purpose)
    /\ ~IsSome(StoredRow(db, data.link).purpose)
    /\ ~IsSome(StoredRow(db, data.link).report_date_close)
    /\ StoredRow(db, data.link).created_at < StoredRow(db, data.link).updated_at

(* C3 as claimed: after a feed run that fails, no insert or update of the  *)
(* entry that was being processed is visible: the table is the one from    *)
(* before that entry (before the run, when no entry was reached).          *)
C3_FailedRunKeepsPriorCommits ==
    (pc = "main_loop" /\ outcome \in {"malformed", "fault"}) => db = dbMark

(* C3 amended: a run that fails at the fetch, on a malformed feed, or      *)
(* before the commit of the entry being processed completes leaves the     *)
(* table as it was before that entry; a fault after the commit (in the     *)
(* prints that follow it) leaves that entry's write stored as committed,   *)
(* the rows of the other links being as before it.                         *)
C3_FailedRunKeepsLastCommit ==
    (pc = "main_loop" /\ outcome \in {"malformed", "fault"}) =>
        /\ txn = db
        /\ fault_at # "print" => db = dbMark
        /\ fault_at = "print" =>
              /\ RowMatchesData(StoredRow(db, data.link), data)
              /\ Len(db) = Len(dbMark) + (IF existing THEN 0 ELSE 1)
              /\ \A i \in 1..Len(dbMark) :
                    dbMark[i].link # data.link => db[i] = dbMark[i]

(* C3 witness: the commit of the second entry raised after the first entry *)
(* was committed; the run has ended.                                       *)
C3_Witness ==
    /\ pc = "main_loop"
    /\ outcome = "fault"
    /\ fault_at = "commit"
    /\ entry_index = 2
    /\ Len(seen) = 1
    /\ Len(db) > rows_at_start

(* The distinct URLs of a list in the order of their first occurrence.     *)
IsFirstOccurrenceList(unique, urls) ==
    /\ \A i, j \in 1..Len(unique) : unique[i] = unique[j] => i = j
    /\ {unique[i] : i \in 1..Len(unique)} = {urls[i] : i \in 1..Len(urls)}
    /\ \A i, j \in 1..Len(unique) :
          i < j =>
             \E a \in 1..Len(urls) :
                /\ urls[a] = unique[i]
                /\ \A b \in 1..a : urls[b] # unique[j]

C5_NoPricesOnErrorOrEmpty ==
    (JustCommitted /\ provider \in {"error", "empty"}) =>
        /\ ~IsSome(StoredRow(db, data.link).report_date_close)
        /\ ~IsSome(StoredRow(db, data.link).current_price)

(* C5 amended: an entry stored after the provider raised has neither       *)
(* price; after an empty history it has no report-date close (its current  *)
(* price is whatever the latest quote gave); in both cases the row is      *)
(* stored with the entry's data.                                           *)
C5_PricesOnErrorOrEmpty ==
    (JustCommitted /\ provider \in {"error", "empty"}) =>
        /\ StoredRows(db, data.link) # {}
        /\ RowMatchesData(StoredRow(db, data.link), data)
        /\ IsSome(StoredRow(db, data.link).ticker)
        /\ IsSome(StoredRow(db, data.link).report_date_timestamp)
        /\ ~IsSome(StoredRow(db, data.link).report_date_close)
        /\ provider = "error" => ~IsSome(StoredRow(db, data.link).current_price)

(* C5 witness: an entry is stored after the provider raised. *)
C5_Witness ==
    /\ JustCommitted
    /\ provider = "error"
    /\ pc = "entries"
    /\ IsSome(StoredRow(db, data.link).ticker)
    /\ ~IsSome(StoredRow(db, data.link).current_price)

(* C8: year, month and day of a stored row are the components of the       *)
(* published date when the published text parses, and otherwise those of   *)
(* the stored report_date_timestamp when the row has one.                  *)
C8_DateComponents ==
    JustCommitted =>
        LET row == StoredRow(db, data.link)
            ymd == <<row.year, row.month, row.day>>
        IN  /\ IsSome(parse_date(row.published)) =>
                  ymd = get_date_components(parse_date(row.published))
            /\ (~IsSome(parse_date(row.published))
                   /\ IsSome(row.report_date_timestamp)) =>
                  ymd = get_date_components(row.report_date_timestamp)

(* The entries of this call that found their link stored. *)
AlreadyStored ==
    {i \in 1..Len(seen) :
        seen[i] \in links_at_start \cup {seen[j] : j \in 1..(i - 1)}}

(* C9: when the loop over the entries is over, the insert counter is the   *)
(* number of rows the run added, the update counter the number of entries  *)
(* whose link was stored when they were processed, and their sum the       *)
(* number of entries; an empty feed adds no row and counts 0 and 0.        *)
C9_CountsExact ==
    ((pc = "entries" /\ entry_index = n_entries) \/ outcome = "completed") =>
        /\ inserted_count = Len(db) - rows_at_start
        /\ updated_count = Cardinality(AlreadyStored)
        /\ inserted_count + updated_count = n_entries
        /\ n_entries = 0 =>
              inserted_count = 0 /\ updated_count = 0 /\ db = dbMark

(* C9 witness: a feed of two entries with the same new link is over: one   *)
(* row added, one update.                                                  *)
C9_Witness ==
    /\ pc = "entries"
    /\ entry_index = n_entries
    /\ n_entries = 2
    /\ seen[1] = seen[2]
    /\ seen[1] \notin links_at_start
    /\ inserted_count = 1
    /\ updated_count = 1

-----------------------------------------------------------------------------
(* Properties of the two pure functions.                                   *)

(* The phrase occurs in the text. *)
HasPhrase(t, ph) ==
    \E i \in 1..(Len(t) - Len(ph) + 1) : SubSeq(t, i, i + Len(ph) - 1) = ph

KnownPhrases ==
    { <<"HOLD1PCT", "INCREASE">>, <<"HOLD1PCT", "DECREASE">>, <<"NEW">>,
      <<"CHANGE">>, <<"CORRECTION">>, <<"BASEDATE">> }

(* The rules of the percentage-change extractor, by what they look for.    *)
Rule1(t) == SearchGroup(t, <<"p", "t", "UP">>)
Rule2(t) == SearchGroup(t, <<"p", "t", "DOWN">>)
Rule3(t) == SearchDeltaGroup(t, <<"p", "t">>)
Rule4(t) == SearchGroup(t, <<"p", "t">>)

(* The result the ordered rules prescribe. *)
FirstRuleResult(t) ==
    IF IsSome(Rule1(t)) THEN <<1, 1>>
    ELSE IF IsSome(Rule2(t)) THEN <<2, -1>>
    ELSE IF IsSome(Rule3(t)) THEN <<3, -1>>
    ELSE IF IsSome(Rule4(t)) THEN <<4, 0>>
    ELSE <<5, 0>>

(* C6: for every ratio text the function returns the result of the first   *)
(* applicable rule: a value exactly when one of rules 1 to 4 applies, and  *)
(* the direction of that rule; so the direction is 1, -1 or 0 and the      *)
(* value is absent only with direction 0.                                  *)
C6_FirstRuleWins ==
    pc = "returned" =>
        /\ ~result.raised
        /\ result.direction = FirstRuleResult(text)[2]
        /\ IsSome(result.value) <=> FirstRuleResult(text)[1] # 5
        /\ result.direction \in {1, -1, 0}
        /\ ~IsSome(result.value) => result.direction = 0

(* C10: extract_percentage_change returns a pair for every ratio text: it  *)
(* never raises.                                                           *)
C10_NeverRaises == pc = "returned" => ~result.raised

(* C7 as claimed: the code is in 0..6, every text with the phrase NEW has  *)
(* code 3, every text that is empty or has none of the six phrases has     *)
(* code 0.                                                                 *)
C7_NewIsThree ==
    pc = "returned" =>
        /\ reason_code \in 0..6
        /\ HasPhrase(reason_text, <<"NEW">>) => reason_code = 3
        /\ (\A ph \in KnownPhrases : ~HasPhrase(reason_text, ph)) => reason_code = 0

(* C7 amended: the code is in 0..6; a text with the phrase NEW and with    *)
(* neither of the two holding-ratio phrases, which come first in the       *)
(* mapping, has code 3; a text that is empty or has none of the six        *)
(* phrases has code 0.                                                     *)
C7_NewIsThreeUnlessRatioPhrase ==
    pc = "returned" =>
        /\ reason_code \in 0..6
        /\ (/\ HasPhrase(reason_text, <<"NEW">>)
            /\ ~HasPhrase(reason_text, <<"HOLD1PCT", "INCREASE">>)
            /\ ~HasPhrase(reason_text, <<"HOLD1PCT", "DECREASE">>)) => reason_code = 3
        /\ (\A ph \in KnownPhrases : ~HasPhrase(reason_text, ph)) => reason_code = 0

(* C7 witness: a text with a later phrase of the mapping before the phrase *)
(* NEW is classified as 3.                                                 *)
C7_Witness ==
    /\ pc = "returned"
    /\ Len(reason_text) = 3
    /\ reason_text[1] = "CHANGE"
    /\ reason_text[3] = "NEW"
    /\ reason_code = 3

====
